---- MODULE Spec2Model ----
(***************************************************************************)
(* Model of backend/server.py: the two Flask handlers upload_document and  *)
(* ask_question, the process-wide ACTIVE_COLLECTION pointer and the vector *)
(* store they share.  The development server handles requests in threads,  *)
(* so a handler is a sequence of steps, one per access to the shared state *)
(* (the global pointer, the store), and steps of different requests        *)
(* interleave.                                                             *)
(***************************************************************************)
EXTENDS Integers, Sequences, FiniteSets, TLC

\* ------------------------------------------------------------------ bounds
NumReq   == 2    \* request slots served at the same time
MaxNames == 2    \* collection names uuid4 can hand out in one run
MaxPages == 1    \* pages of an uploaded PDF
MaxStored == 6   \* chunks of the collection the prompt is built from

\* --------------------------------------------------------------- constants
None   == 0      \* Python's None (falsy)
Loaded == 1      \* a LocalEmbeddingsAdapter instance (truthy)
K      == 5      \* search_kwargs={"k": 5}

Reqs  == 1..NumReq
Names == 1..MaxNames

\* strings are sequences of characters
Whitespace == {" ", "\n"}

\* what page.extract_text() may return: nothing, whitespace, text
PageTexts == {<<>>, <<" ">>, <<"a">>}

\* what the "query" field of the JSON body may hold
Queries == {<<>>, <<" ">>, <<"q">>}

RECURSIVE SeqsUpTo(_, _)
SeqsUpTo(S, n) ==
    IF n = 0 THEN {<<>>}
    ELSE LET shorter == SeqsUpTo(S, n - 1)
         IN  shorter \cup {Append(s, x) : s \in {t \in shorter : Len(t) = n - 1}, x \in S}

\* request.files.get("file"): no file, a file PdfReader cannot read, a PDF
NoFile      == [present |-> FALSE, readable |-> FALSE, pages |-> <<>>]
CorruptFile == [present |-> TRUE,  readable |-> FALSE, pages |-> <<>>]
Files ==
    {NoFile, CorruptFile}
      \cup {[present |-> TRUE, readable |-> TRUE, pages |-> p] : p \in SeqsUpTo(PageTexts, MaxPages)}

\* request.get_json(): no JSON body, a body without "query", a body with one
Datas ==
    {[json |-> FALSE, haskey |-> FALSE, query |-> <<>>],
     [json |-> TRUE,  haskey |-> FALSE, query |-> <<>>]}
      \cup {[json |-> TRUE, haskey |-> TRUE, query |-> q] : q \in Queries}

VARIABLES
    GLOBAL_EMBEDDINGS_ADAPTER,  \* Loaded, or None when the model failed to load
    ACTIVE_COLLECTION,          \* None or the name of the active collection
    store,                      \* the vector store: collection name -> stored chunks
    usedNames,                  \* names uuid4 has returned so far
    req,                        \* per request slot: handler, position, locals
    done,                       \* the request that returned last: its response, what it did
    history,                    \* successful uploads in order of completion
    servicesAnswer              \* the external services answer the calls made to them

vars ==
    <<GLOBAL_EMBEDDINGS_ADAPTER, ACTIVE_COLLECTION, store, usedNames, req, done, history,
      servicesAnswer>>

\* Python truthiness of None / object, and of a str
Truthy(x)    == x # None
TruthyStr(s) == s # <<>>

Min(a, b) == IF a < b THEN a ELSE b

NoResp == [status |-> 0, key |-> "", text |-> ""]

IdleReq ==
    [kind |-> "none", pc |-> "idle", docs |-> <<>>, collection_name |-> None,
     query |-> <<>>, handle |-> None,
     startActive |-> None, calls |-> {}, generations |-> 0, prompt |-> <<>>]

NoneDone ==
    [kind |-> "none", resp |-> NoResp, calls |-> {}, generations |-> 0, prompt |-> <<>>]

Init ==
    /\ GLOBAL_EMBEDDINGS_ADAPTER \in {Loaded, None}
    /\ ACTIVE_COLLECTION = None
    /\ store = << >>
    /\ usedNames = {}
    /\ req = [r \in Reqs |-> IdleReq]
    /\ done = NoneDone
    /\ history = <<>>
    /\ servicesAnswer = TRUE

\* ---------------------------------------------------------------- helpers
Exists(name) == name \in DOMAIN store

\* DROP TABLE IF EXISTS "<name>" CASCADE
DropTable(s, name) == [n \in (DOMAIN s) \ {name} |-> s[n]]

\* the store with collection name holding chunks
PutCollection(s, name, chunks) ==
    [n \in (DOMAIN s) \cup {name} |-> IF n = name THEN chunks ELSE s[n]]

\* the loop over pdf_reader.pages: raw_text += txt + "\n" for every truthy txt
RECURSIVE ExtractText(_)
ExtractText(pages) ==
    IF pages = <<>> THEN <<>>
    ELSE IF TruthyStr(Head(pages))
         THEN Head(pages) \o <<"\n">> \o ExtractText(Tail(pages))
         ELSE ExtractText(Tail(pages))

\* raw_text.strip(): whitespace removed at both ends
RECURSIVE LStrip(_)
LStrip(t) == IF t # <<>> /\ Head(t) \in Whitespace THEN LStrip(Tail(t)) ELSE t

RECURSIVE RStrip(_)
RStrip(t) ==
    IF t # <<>> /\ t[Len(t)] \in Whitespace THEN RStrip(SubSeq(t, 1, Len(t) - 1)) ELSE t

Strip(t) == RStrip(LStrip(t))

\* splitter.split_text(raw_text): every unit of text stands for one
\* chunk-sized block; whitespace between blocks is not a chunk
split_text(raw_text) == SelectSeq(raw_text, LAMBDA c : c \notin Whitespace)

\* a generator that can hand out a name it has handed out before
uuid4Reused == Names

\* uuid.uuid4().hex: a name never returned before
uuid4 ==
    IF usedNames = Names THEN {}
    ELSE {CHOOSE n \in Names \ usedNames : \A m \in Names \ usedNames : n <= m}

\* init_vector_store: raises ValueError without an embedding function,
\* otherwise a store object bound to collection_name
init_vector_store(embedding_function, collection_name) ==
    IF ~Truthy(embedding_function)
    THEN [raised |-> TRUE,  collection_name |-> None]
    ELSE [raised |-> FALSE, collection_name |-> collection_name]

\* the chunk texts of the sample collections, and for each query the distance
\* between its embedding and a chunk's (embed_query against embed_documents):
\* the query "q" is nearest to the first text, any other query to the last
Alphabet == <<"a", "b", "c", "d", "e", "f", "g", "h">>

Index(chunk) == CHOOSE i \in 1..Len(Alphabet) : Alphabet[i] = chunk

Distance(query, chunk) ==
    IF query = <<"q">> THEN Index(chunk) ELSE Len(Alphabet) + 1 - Index(chunk)

\* the k chunks of stored that are nearest to the query, nearest first
RECURSIVE Nearest(_, _, _)
Nearest(stored, query, k) ==
    IF k = 0 \/ stored = <<>> THEN <<>>
    ELSE LET i == CHOOSE i \in 1..Len(stored) :
                    \A j \in 1..Len(stored) :
                        \/ Distance(query, stored[i]) < Distance(query, stored[j])
                        \/ Distance(query, stored[i]) = Distance(query, stored[j]) /\ i <= j
             rest == SubSeq(stored, 1, i - 1) \o SubSeq(stored, i + 1, Len(stored))
         IN  <<stored[i]>> \o Nearest(rest, query, k - 1)

\* a retriever without search_kwargs k: every chunk of the collection
get_relevant_documentsUnlimited(stored, query) == Nearest(stored, query, Len(stored))

\* store.as_retriever(search_kwargs={"k": 5}).get_relevant_documents(query):
\* at most K chunks of the collection, most similar first
get_relevant_documents(stored, query) == Nearest(stored, query, K)

\* context = "\n---\n".join(doc.page_content for doc in docs)
RECURSIVE Context(_)
Context(docs) ==
    IF docs = <<>> THEN <<>>
    ELSE IF Len(docs) = 1 THEN docs
    ELSE <<Head(docs), "\n---\n">> \o Context(Tail(docs))

\* the f-string of lines 128-132: instructions, context, user question
Prompt(context, query) ==
    <<"You are an intelligent assistant. [...] in the document.\n\nContext:\n">>
      \o context \o <<"\n\nUser question: ">> \o query

\* return jsonify({key: text}), status: the handler's locals go out of scope
\* and the slot is free again
Respond(r, base, status, key, text) ==
    /\ req' = [req EXCEPT ![r] = IdleReq]
    /\ done' = [kind |-> base.kind, calls |-> base.calls,
                generations |-> base.generations, prompt |-> base.prompt,
                resp |-> [status |-> status, key |-> key, text |-> text]]

\* an except clause that returns the body without a status: Flask sends 200
UploadExceptNoStatus(r, base, e) == Respond(r, base, 200, "error", e)

\* except Exception as e: return jsonify({"error": str(e)}), 500
UploadExcept(r, base, e) == Respond(r, base, 500, "error", e)

\* except Exception as e: return jsonify({"error": "Error fetching ..."}), 500
AskExcept(r, base) == Respond(r, base, 500, "error", "Error fetching answer from Gemini API.")

\* the handler of slot r goes on with locals next
Continue(r, next) ==
    /\ req' = [req EXCEPT ![r] = next]
    /\ UNCHANGED done

Free(r)     == req[r].pc = "idle"
InFlight(r) == req[r].kind = "upload" /\ req[r].pc # "idle"

\* --------------------------------------------------------- upload_document
\* upload_document without the adapter check of lines 58-59
UploadBeginNoAdapterCheck(r, file) ==
    /\ Free(r)
    /\ LET base == [IdleReq EXCEPT !.kind = "upload",
                                   !.startActive = ACTIVE_COLLECTION]
       IN  IF ~file.present
           THEN /\ Respond(r, base, 400, "error", "No file uploaded")
                /\ UNCHANGED usedNames
           ELSE IF ~file.readable
           THEN /\ UploadExcept(r, base, "PdfReadError")
                /\ UNCHANGED usedNames
           ELSE LET raw_text == ExtractText(file.pages)
                IN  IF Strip(raw_text) = <<>>
                    THEN /\ Respond(r, base, 400, "error", "PDF contains no extractable text")
                         /\ UNCHANGED usedNames
                    ELSE \E name \in uuid4 :
                           /\ Continue(r, [base EXCEPT
                                  !.pc = IF Truthy(ACTIVE_COLLECTION) THEN "drop" ELSE "store",
                                  !.docs = split_text(raw_text),
                                  !.collection_name = name])
                           /\ usedNames' = usedNames \cup {name}
    /\ UNCHANGED <<servicesAnswer, GLOBAL_EMBEDDINGS_ADAPTER, ACTIVE_COLLECTION, store, history>>

\* upload_document without the test of the extracted text (lines 73-74)
UploadBeginNoBlankCheck(r, file) ==
    /\ Free(r)
    /\ LET base == [IdleReq EXCEPT !.kind = "upload",
                                   !.startActive = ACTIVE_COLLECTION]
       IN  IF ~Truthy(GLOBAL_EMBEDDINGS_ADAPTER)
           THEN /\ Respond(r, base, 500, "error", "Embeddings model failed to load on startup.")
                /\ UNCHANGED usedNames
           ELSE IF ~file.present
           THEN /\ Respond(r, base, 400, "error", "No file uploaded")
                /\ UNCHANGED usedNames
           ELSE IF ~file.readable
           THEN /\ UploadExcept(r, base, "PdfReadError")
                /\ UNCHANGED usedNames
           ELSE \E name \in uuid4 :
                  /\ Continue(r, [base EXCEPT
                         !.pc = IF Truthy(ACTIVE_COLLECTION) THEN "drop" ELSE "store",
                         !.docs = split_text(ExtractText(file.pages)),
                         !.collection_name = name])
                  /\ usedNames' = usedNames \cup {name}
    /\ UNCHANGED <<servicesAnswer, GLOBAL_EMBEDDINGS_ADAPTER, ACTIVE_COLLECTION, store, history>>

\* lines 57-82: adapter check, file check, extraction, blank check, chunking,
\* fresh collection name, and the test "if ACTIVE_COLLECTION:".  Everything
\* before that test is local to the request, so it is one step with the test.
UploadBegin(r, file) ==
    /\ Free(r)
    /\ LET base == [IdleReq EXCEPT !.kind = "upload",
                                   !.startActive = ACTIVE_COLLECTION]
       IN  IF ~Truthy(GLOBAL_EMBEDDINGS_ADAPTER)
           THEN /\ Respond(r, base, 500, "error", "Embeddings model failed to load on startup.")
                /\ UNCHANGED usedNames
           ELSE IF ~file.present
           THEN /\ Respond(r, base, 400, "error", "No file uploaded")
                /\ UNCHANGED usedNames
           ELSE IF ~file.readable
           THEN /\ UploadExcept(r, base, "PdfReadError")
                /\ UNCHANGED usedNames
           ELSE LET raw_text == ExtractText(file.pages)
                IN  IF Strip(raw_text) = <<>>
                    THEN /\ Respond(r, base, 400, "error", "PDF contains no extractable text")
                         /\ UNCHANGED usedNames
                    ELSE \E name \in uuid4 :
                           /\ Continue(r, [base EXCEPT
                                  !.pc = IF Truthy(ACTIVE_COLLECTION) THEN "drop" ELSE "store",
                                  !.docs = split_text(raw_text),
                                  !.collection_name = name])
                           /\ usedNames' = usedNames \cup {name}
    /\ UNCHANGED <<servicesAnswer, GLOBAL_EMBEDDINGS_ADAPTER, ACTIVE_COLLECTION, store, history>>

\* upload_document without the try/except around the drop
UploadDropOldPropagating(r) ==
    /\ req[r].kind = "upload" /\ req[r].pc = "drop"
    /\ servicesAnswer
    /\ LET tried == [req[r] EXCEPT !.calls = @ \cup {"store"}]
       IN  \/ /\ UploadExcept(r, tried, "OperationalError")
              /\ UNCHANGED store
           \/ /\ Continue(r, [tried EXCEPT !.pc = "store"])
              /\ store' = DropTable(store, ACTIVE_COLLECTION)
    /\ UNCHANGED <<servicesAnswer, GLOBAL_EMBEDDINGS_ADAPTER, ACTIVE_COLLECTION, usedNames, history>>

\* lines 83-92: connect, DROP TABLE IF EXISTS "{ACTIVE_COLLECTION}", commit;
\* the statement names whatever the global holds when it is formatted; an
\* exception is logged and swallowed
UploadDropOld(r) ==
    /\ req[r].kind = "upload" /\ req[r].pc = "drop"
    /\ servicesAnswer
    /\ \E raised \in BOOLEAN :
         /\ store' = IF raised THEN store ELSE DropTable(store, ACTIVE_COLLECTION)
         /\ Continue(r, [req[r] EXCEPT !.pc = "store", !.calls = @ \cup {"store"}])
    /\ UNCHANGED <<servicesAnswer, GLOBAL_EMBEDDINGS_ADAPTER, ACTIVE_COLLECTION, usedNames, history>>

\* upload_document with the assignment of line 96 moved before add_documents
UploadAddDocumentsRepointFirst(r) ==
    /\ req[r].kind = "upload" /\ req[r].pc = "store"
    /\ servicesAnswer
    /\ ACTIVE_COLLECTION' = req[r].collection_name
    /\ LET added == [req[r] EXCEPT !.calls = @ \cup {"embed", "store"}]
       IN  \/ /\ UploadExcept(r, added, "OperationalError")
              /\ UNCHANGED store
           \/ /\ Continue(r, [added EXCEPT !.pc = "repoint"])
              /\ store' = PutCollection(store, req[r].collection_name, req[r].docs)
    /\ UNCHANGED <<servicesAnswer, GLOBAL_EMBEDDINGS_ADAPTER, usedNames, history>>

\* lines 94-95: store = init_vector_store(...); store.add_documents(docs):
\* embeds the chunks and stores them under the new collection.  Either call
\* may raise; when add_documents raises, the new collection is missing or
\* holds only some of the chunks
UploadAddDocuments(r) ==
    /\ req[r].kind = "upload" /\ req[r].pc = "store"
    /\ servicesAnswer
    /\ LET made   == init_vector_store(GLOBAL_EMBEDDINGS_ADAPTER, req[r].collection_name)
           opened == [req[r] EXCEPT !.calls = @ \cup {"store"}]
           added  == [req[r] EXCEPT !.calls = @ \cup {"embed", "store"}]
       IN  IF made.raised
           THEN /\ UploadExcept(r, req[r], "Embedding function is not initialized.")
                /\ UNCHANGED store
           ELSE \/ /\ UploadExcept(r, opened, "OperationalError")
                   /\ UNCHANGED store
                \/ /\ UploadExcept(r, added, "OperationalError")
                   /\ \/ store' = store
                      \/ \E n \in 0..(Len(req[r].docs) - 1) :
                           store' = PutCollection(store, made.collection_name, SubSeq(req[r].docs, 1, n))
                \/ /\ Continue(r, [added EXCEPT !.pc = "repoint"])
                   /\ store' = PutCollection(store, made.collection_name, req[r].docs)
    /\ UNCHANGED <<servicesAnswer, GLOBAL_EMBEDDINGS_ADAPTER, ACTIVE_COLLECTION, usedNames, history>>

\* lines 96-97: ACTIVE_COLLECTION = collection_name; return 200
UploadRepoint(r) ==
    /\ req[r].kind = "upload" /\ req[r].pc = "repoint"
    /\ ACTIVE_COLLECTION' = req[r].collection_name
    /\ Respond(r, req[r], 200, "message", "Stored file")
    /\ history' = Append(history, [docs |-> req[r].docs, name |-> req[r].collection_name])
    /\ UNCHANGED <<servicesAnswer, GLOBAL_EMBEDDINGS_ADAPTER, store, usedNames>>

\* ------------------------------------------------------------ ask_question
\* ask_question with the adapter check ahead of the active-collection check
AskBeginAdapterFirst(r, data) ==
    /\ Free(r)
    /\ LET query == IF data.json /\ data.haskey THEN data.query ELSE <<>>
           base  == [IdleReq EXCEPT !.kind = "ask", !.query = query]
       IN  IF ~Truthy(GLOBAL_EMBEDDINGS_ADAPTER)
           THEN Respond(r, base, 500, "error", "Embeddings model failed to load")
           ELSE IF ~Truthy(ACTIVE_COLLECTION)
           THEN Respond(r, base, 400, "error", "No document uploaded yet")
           ELSE IF ~data.json
           THEN \/ AskExcept(r, base)
                \/ Respond(r, base, 400, "error", "Please send a query.")
           ELSE IF ~TruthyStr(query)
           THEN Respond(r, base, 400, "error", "Please send a query.")
           ELSE Continue(r, [base EXCEPT !.pc = "init"])
    /\ UNCHANGED <<servicesAnswer, GLOBAL_EMBEDDINGS_ADAPTER, ACTIVE_COLLECTION, store, usedNames, history>>

\* ask_question with the query check ahead of the active-collection check
AskBeginQueryFirst(r, data) ==
    /\ Free(r)
    /\ LET query == IF data.json /\ data.haskey THEN data.query ELSE <<>>
           base  == [IdleReq EXCEPT !.kind = "ask", !.query = query]
       IN  IF ~TruthyStr(query)
           THEN Respond(r, base, 400, "error", "Please send a query.")
           ELSE IF ~Truthy(ACTIVE_COLLECTION)
           THEN Respond(r, base, 400, "error", "No document uploaded yet")
           ELSE IF ~Truthy(GLOBAL_EMBEDDINGS_ADAPTER)
           THEN Respond(r, base, 500, "error", "Embeddings model failed to load")
           ELSE Continue(r, [base EXCEPT !.pc = "init"])
    /\ UNCHANGED <<servicesAnswer, GLOBAL_EMBEDDINGS_ADAPTER, ACTIVE_COLLECTION, store, usedNames, history>>

\* lines 104-114: active-collection check, adapter check, query check; for a
\* body that is not JSON request.get_json() raises (caught at line 137) or
\* returns None, depending on the Flask release
AskBegin(r, data) ==
    /\ Free(r)
    /\ LET query == IF data.json /\ data.haskey THEN data.query ELSE <<>>
           base  == [IdleReq EXCEPT !.kind = "ask", !.query = query]
       IN  IF ~Truthy(ACTIVE_COLLECTION)
           THEN Respond(r, base, 400, "error", "No document uploaded yet")
           ELSE IF ~Truthy(GLOBAL_EMBEDDINGS_ADAPTER)
           THEN Respond(r, base, 500, "error", "Embeddings model failed to load")
           ELSE IF ~data.json
           THEN \/ AskExcept(r, base)
                \/ Respond(r, base, 400, "error", "Please send a query.")
           ELSE IF ~TruthyStr(query)
           THEN Respond(r, base, 400, "error", "Please send a query.")
           ELSE Continue(r, [base EXCEPT !.pc = "init"])
    /\ UNCHANGED <<servicesAnswer, GLOBAL_EMBEDDINGS_ADAPTER, ACTIVE_COLLECTION, store, usedNames, history>>

\* ask_question opening the store in a way that creates a missing collection
AskInitStoreCreating(r) ==
    /\ req[r].kind = "ask" /\ req[r].pc = "init"
    /\ servicesAnswer
    /\ Continue(r, [req[r] EXCEPT !.pc = "retrieve", !.handle = ACTIVE_COLLECTION,
                                  !.calls = @ \cup {"store"}])
    /\ store' = IF Exists(ACTIVE_COLLECTION) THEN store
                ELSE PutCollection(store, ACTIVE_COLLECTION, <<>>)
    /\ UNCHANGED <<servicesAnswer, GLOBAL_EMBEDDINGS_ADAPTER, ACTIVE_COLLECTION, usedNames, history>>

\* line 116: store = init_vector_store(GLOBAL_EMBEDDINGS_ADAPTER, ACTIVE_COLLECTION):
\* the global is read a second time
AskInitStore(r) ==
    /\ req[r].kind = "ask" /\ req[r].pc = "init"
    /\ servicesAnswer
    /\ LET made   == init_vector_store(GLOBAL_EMBEDDINGS_ADAPTER, ACTIVE_COLLECTION)
           opened == [req[r] EXCEPT !.calls = @ \cup {"store"}]
       IN  IF made.raised
           THEN AskExcept(r, req[r])
           ELSE \/ AskExcept(r, opened)
                \/ Continue(r, [opened EXCEPT !.pc = "retrieve", !.handle = made.collection_name])
    /\ UNCHANGED <<servicesAnswer, GLOBAL_EMBEDDINGS_ADAPTER, ACTIVE_COLLECTION, store, usedNames, history>>

\* lines 117-136 without the "if not docs" check of lines 120-121: the prompt
\* goes to model.generate_content whatever the retriever returned
AskRetrieveAlwaysGenerate(r) ==
    /\ req[r].kind = "ask" /\ req[r].pc = "retrieve"
    /\ servicesAnswer
    /\ LET searched == [req[r] EXCEPT !.calls = @ \cup {"embed", "store"}]
           docs     == IF Exists(req[r].handle)
                       THEN get_relevant_documents(store[req[r].handle], req[r].query)
                       ELSE <<>>
           generated == [searched EXCEPT !.calls = @ \cup {"generate"},
                                         !.generations = @ + 1,
                                         !.prompt = Prompt(Context(docs), req[r].query)]
       IN  \/ AskExcept(r, searched)
           \/ AskExcept(r, generated)
           \/ Respond(r, generated, 200, "answer", "response.text")
    /\ UNCHANGED <<servicesAnswer, GLOBAL_EMBEDDINGS_ADAPTER, ACTIVE_COLLECTION, store, usedNames, history>>

\* lines 117-136: retriever.get_relevant_documents(query) with k = 5 embeds
\* the query and reads the nearest chunks of the collection; it may raise, and
\* a collection that is not in the store yields an error or no documents;
\* without documents the sentinel answer, otherwise the prompt goes to
\* model.generate_content, which may raise
AskRetrieve(r) ==
    /\ req[r].kind = "ask" /\ req[r].pc = "retrieve"
    /\ servicesAnswer
    /\ LET searched == [req[r] EXCEPT !.calls = @ \cup {"embed", "store"}]
           docs     == IF Exists(req[r].handle)
                       THEN get_relevant_documents(store[req[r].handle], req[r].query)
                       ELSE <<>>
           generated == [searched EXCEPT !.calls = @ \cup {"generate"},
                                         !.generations = @ + 1,
                                         !.prompt = Prompt(Context(docs), req[r].query)]
       IN  \/ AskExcept(r, searched)
           \/ IF docs = <<>>
              THEN Respond(r, searched, 200, "answer",
                           "No relevant content found in the uploaded document.")
              ELSE \/ AskExcept(r, generated)
                   \/ Respond(r, generated, 200, "answer", "response.text")
    /\ UNCHANGED <<servicesAnswer, GLOBAL_EMBEDDINGS_ADAPTER, ACTIVE_COLLECTION, store, usedNames, history>>

\* ------------------------------------------------------------ specification
Next ==
    \/ \E r \in Reqs, file \in Files : UploadBegin(r, file)
    \/ \E r \in Reqs : UploadDropOld(r)
    \/ \E r \in Reqs : UploadAddDocuments(r)
    \/ \E r \in Reqs : UploadRepoint(r)
    \/ \E r \in Reqs, data \in Datas : AskBegin(r, data)
    \/ \E r \in Reqs : AskInitStore(r)
    \/ \E r \in Reqs : AskRetrieve(r)

Spec == Init /\ [][Next]_vars

\* Uploads handled one at a time (queries still interleave with the upload)
UploadBeginSerial(r, file) ==
    /\ \A o \in Reqs : ~InFlight(o)
    /\ UploadBegin(r, file)

NextSerial ==
    \/ \E r \in Reqs, file \in Files : UploadBeginSerial(r, file)
    \/ \E r \in Reqs : UploadDropOld(r)
    \/ \E r \in Reqs : UploadAddDocuments(r)
    \/ \E r \in Reqs : UploadRepoint(r)
    \/ \E r \in Reqs, data \in Datas : AskBegin(r, data)
    \/ \E r \in Reqs : AskInitStore(r)
    \/ \E r \in Reqs : AskRetrieve(r)

SpecSerial == Init /\ [][NextSerial]_vars

\* Queries one at a time against one uploaded document of 1..MaxStored
\* distinct chunks, stored in any order: the state after the first successful
\* upload of such a document
StoredSamples ==
    UNION {{[i \in 1..n |-> Alphabet[p[i]]] : p \in Permutations(1..n)} : n \in 1..MaxStored}

InitPrompt ==
    /\ GLOBAL_EMBEDDINGS_ADAPTER = Loaded
    /\ ACTIVE_COLLECTION = 1
    /\ \E chunks \in StoredSamples :
         /\ store = (1 :> chunks)
         /\ history = <<[docs |-> chunks, name |-> 1]>>
    /\ usedNames = {1}
    /\ servicesAnswer = TRUE
    /\ req = [r \in Reqs |-> IdleReq]
    /\ done = [kind |-> "upload", calls |-> {"embed", "store"}, generations |-> 0,
               prompt |-> <<>>,
               resp |-> [status |-> 200, key |-> "message", text |-> "Stored file"]]

\* a query arriving while no request is being served takes the first slot
AskBeginAlone(r, data) ==
    /\ \A o \in Reqs : Free(o)
    /\ r = 1
    /\ AskBegin(r, data)

NextPrompt ==
    \/ \E r \in Reqs, data \in Datas : AskBeginAlone(r, data)
    \/ \E r \in Reqs : AskInitStore(r)
    \/ \E r \in Reqs : AskRetrieve(r)

SpecPrompt == InitPrompt /\ [][NextPrompt]_vars

\* The external services either answer every call or none; a step of a
\* handler that is in progress is taken as soon as it can be (a thread that is
\* not waiting for a service runs on), new requests need not arrive.
InitLive ==
    /\ GLOBAL_EMBEDDINGS_ADAPTER \in {Loaded, None}
    /\ ACTIVE_COLLECTION = None
    /\ store = << >>
    /\ usedNames = {}
    /\ req = [r \in Reqs |-> IdleReq]
    /\ done = NoneDone
    /\ history = <<>>
    /\ servicesAnswer \in BOOLEAN

Fairness ==
    \A r \in Reqs :
        /\ WF_vars(UploadDropOld(r))
        /\ WF_vars(UploadAddDocuments(r))
        /\ WF_vars(UploadRepoint(r))
        /\ WF_vars(AskInitStore(r))
        /\ WF_vars(AskRetrieve(r))

SpecLive == InitLive /\ [][Next]_vars /\ Fairness

TypeOK ==
    /\ GLOBAL_EMBEDDINGS_ADAPTER \in {Loaded, None}
    /\ ACTIVE_COLLECTION \in Names \cup {None}
    /\ DOMAIN store \subseteq Names
    /\ usedNames \subseteq Names
    /\ \A r \in Reqs : req[r].pc \in {"idle", "drop", "store", "repoint", "init", "retrieve"}
\* ------------------------------------------------------------------ claims
\* the chunks of the document a successfully uploaded collection was created for
DocsOf(name) ==
    LET i == CHOOSE i \in 1..Len(history) : history[i].name = name
    IN  history[i].docs

HistoryNames == {history[i].name : i \in 1..Len(history)}

\* collection name exists in store s and holds all chunks of its document
Servable(s, name) ==
    /\ name \in HistoryNames
    /\ name \in DOMAIN s
    /\ s[name] = DocsOf(name)

\* this step ends upload request r, in flight until now, with status 200 / another status
UploadSucceeded(r) ==
    /\ req[r].kind = "upload" /\ req[r].pc # "idle" /\ req'[r].pc = "idle"
    /\ done'.resp.status = 200

UploadFailed(r) ==
    /\ req[r].kind = "upload" /\ req[r].pc # "idle" /\ req'[r].pc = "idle"
    /\ done'.resp.status # 200

\* this step is a whole request that was answered at once
AnsweredAtOnce(kind) == req' = req /\ done' # done /\ done'.kind = kind

\* this step is taken by ask_question request r
AskStep(r) == req'[r] # req[r] /\ (req[r].kind = "ask" \/ req'[r].kind = "ask")

\* upload request r is between its read of ACTIVE_COLLECTION (line 82) and its
\* assignment to it (line 96)
InCriticalSection(r) == req[r].kind = "upload" /\ req[r].pc \in {"drop", "store", "repoint"}

\* C1: a collection leaves the store only when the new collection of the
\* upload that drops it is already in the store with all its chunks, and an
\* upload that fails leaves the collection that was active when it started in
\* the store, with all its chunks.
C1_DropAfterCreate ==
    [][ /\ \A n \in (DOMAIN store) \ (DOMAIN store') :
             \E r \in Reqs : /\ req[r].kind = "upload"
                             /\ req[r].collection_name \in DOMAIN store
                             /\ store[req[r].collection_name] = req[r].docs
        /\ \A r \in Reqs :
             (UploadFailed(r) /\ req[r].startActive # None)
               => Servable(store', req[r].startActive) ]_vars

\* C2: with uploads one at a time, whenever ACTIVE_COLLECTION is not None it
\* names a collection that is in the store with all chunks of its document.
C2_ActiveIsServable ==
    ACTIVE_COLLECTION # None => Servable(store, ACTIVE_COLLECTION)

C4_MutualExclusion ==
    Cardinality({r \in Reqs : InCriticalSection(r)}) <= 1

\* C5: the collection an ask_question request is about to search is in the
\* store.
C5_QueryNeverOnDropped ==
    \A r \in Reqs :
        (req[r].kind = "ask" /\ req[r].pc = "retrieve") => Exists(req[r].handle)

\* C6: a query that is empty or whitespace-only is rejected at validation: no
\* ask_question request goes on to the store with such a query.
C6_BlankQueryRejected ==
    \A r \in Reqs :
        (req[r].kind = "ask" /\ req[r].pc # "idle") => Strip(req[r].query) # <<>>

\* C7: while ACTIVE_COLLECTION is None no ask_question request is past its
\* first check, and every ask_question answered so far got 400 "No document
\* uploaded yet" without a call to the embedding, the store or generation.
C7_NoActiveDocument ==
    ACTIVE_COLLECTION = None =>
        /\ \A r \in Reqs : req[r].kind # "ask"
        /\ done.kind = "ask" =>
             /\ done.resp = [status |-> 400, key |-> "error", text |-> "No document uploaded yet"]
             /\ done.calls = {}

\* a query was answered while no document had been uploaded
C7_Witness == ACTIVE_COLLECTION = None /\ done.kind = "ask"

\* C8: when an upload succeeds, ACTIVE_COLLECTION names a collection holding
\* as many chunks as the splitter produced, and the collection that was
\* active until then is out of the store or some upload is at its drop step.
C8_AfterSuccessfulUpload ==
    [][ \A r \in Reqs : UploadSucceeded(r) =>
          /\ ACTIVE_COLLECTION' = req[r].collection_name
          /\ ACTIVE_COLLECTION' \in DOMAIN store'
          /\ Len(store'[ACTIVE_COLLECTION']) = Len(req[r].docs)
          /\ ACTIVE_COLLECTION # None =>
               \/ ACTIVE_COLLECTION \notin DOMAIN store'
               \/ \E o \in Reqs : req'[o].kind = "upload" /\ req'[o].pc = "drop" ]_vars

\* C9: the names of the successful uploads are pairwise distinct, no upload in
\* flight carries a name of an earlier upload, and the active collection is
\* the one of the last successful upload and of no earlier one.
C9_FreshNames ==
    /\ \A i, j \in 1..Len(history) : i # j => history[i].name # history[j].name
    /\ \A r \in Reqs : req[r].kind = "upload" =>
         /\ req[r].collection_name \notin HistoryNames
         /\ \A o \in Reqs : (o # r /\ req[o].kind = "upload")
                              => req[o].collection_name # req[r].collection_name
    /\ history # <<>> =>
         /\ ACTIVE_COLLECTION = history[Len(history)].name
         /\ \A i \in 1..(Len(history) - 1) : history[i].name # ACTIVE_COLLECTION

\* the same document was uploaded successfully twice in sequence
C9_Witness ==
    /\ Len(history) >= 2
    /\ history[1].docs = history[2].docs
    /\ ACTIVE_COLLECTION = history[2].name

\* C10: ACTIVE_COLLECTION starts as None; a step changes it only by ending an
\* upload with status 200, and never to None; a step of ask_question changes
\* neither ACTIVE_COLLECTION nor the store.
C10_PointerLifecycle ==
    /\ ACTIVE_COLLECTION = None
    /\ [][ /\ ACTIVE_COLLECTION' # ACTIVE_COLLECTION =>
                /\ ACTIVE_COLLECTION' # None
                /\ \E r \in Reqs : /\ UploadSucceeded(r)
                                   /\ ACTIVE_COLLECTION' = req[r].collection_name
           /\ (AnsweredAtOnce("ask") \/ \E r \in Reqs : AskStep(r))
                => UNCHANGED <<ACTIVE_COLLECTION, store>> ]_vars

\* a query ran to its answer against an active collection
C10_Witness ==
    /\ ACTIVE_COLLECTION # None
    /\ done.kind = "ask" /\ done.resp.status = 200

\* this step is the drop of upload request r
DropStep(r) == req[r].kind = "upload" /\ req[r].pc = "drop" /\ req'[r] # req[r]

NoExtractableText(file) == file.readable /\ Strip(ExtractText(file.pages)) = <<>>

\* C12: an upload that gets as far as input validation and has no file, or a
\* readable file without extractable text, is answered 400 at once, and the
\* step changes neither ACTIVE_COLLECTION nor the store nor the names in use.
C12_RejectedUploadNoEffect ==
    [][ \A r \in Reqs, file \in Files :
          ( /\ Truthy(GLOBAL_EMBEDDINGS_ADAPTER)
            /\ ~file.present \/ NoExtractableText(file)
            /\ UploadBegin(r, file) )
          => /\ done'.kind = "upload"
             /\ done'.resp.status = 400
             /\ done'.resp.key = "error"
             /\ done'.calls = {}
             /\ req'[r].pc = "idle"
             /\ UNCHANGED <<ACTIVE_COLLECTION, store, usedNames>> ]_vars

\* a blank PDF was rejected while a collection was active
C12_Witness ==
    /\ done.kind = "upload"
    /\ done.resp = [status |-> 400, key |-> "error", text |-> "PDF contains no extractable text"]
    /\ ACTIVE_COLLECTION # None
    /\ ACTIVE_COLLECTION \in DOMAIN store

\* this step is the retrieval (lines 117-136) of ask request r
RetrieveStep(r) == req[r].kind = "ask" /\ req[r].pc = "retrieve" /\ req'[r] # req[r]

\* the number of chunks in the collection ask request r searches
Searchable(r) == IF Exists(req[r].handle) THEN Len(store[req[r].handle]) ELSE 0

\* C13: when the retrieval of a query finds no chunk, the generation service
\* is not invoked and an answer, if one is sent, is the sentinel message with
\* status 200; when it finds at least one chunk, the generation service is
\* invoked at most once, exactly once before any answer, and the answer with
\* status 200 is the text the generation service returned.
C13_SentinelOrGeneration ==
    [][ \A r \in Reqs :
          RetrieveStep(r) =>
            /\ done'.kind = "ask"
            /\ req'[r].pc = "idle"
            /\ done'.resp.status \in {200, 500}
            /\ Searchable(r) = 0 =>
                 /\ done'.generations = 0
                 /\ "generate" \notin done'.calls
                 /\ done'.resp.status = 200 =>
                      done'.resp = [status |-> 200, key |-> "answer",
                                    text |-> "No relevant content found in the uploaded document."]
            /\ Searchable(r) > 0 =>
                 /\ done'.generations <= 1
                 /\ done'.generations = 1 <=> "generate" \in done'.calls
                 /\ done'.resp.status = 200 =>
                      /\ done'.generations = 1
                      /\ done'.resp = [status |-> 200, key |-> "answer",
                                       text |-> "response.text"] ]_vars

\* a query was answered with the sentinel message, the generation service
\* not invoked
C13_Witness ==
    /\ done.kind = "ask"
    /\ done.resp.text = "No relevant content found in the uploaded document."
    /\ done.generations = 0

\* the chunk at place i of the context inside a prompt, after the instructions
\* and with one delimiter between neighbours
PromptChunk(p, i) == p[2 * i]

\* C14: the prompt sent to the generation service holds min(5, n) chunks of
\* the n >= 1 stored ones, each once, the most similar to the query first and
\* none of the left-out chunks more similar than a chosen one, joined by the
\* delimiter, followed by the literal query of the request; fewer than 5
\* stored chunks are no error.
C14_PromptContents ==
    [][ \A r \in Reqs :
          (RetrieveStep(r) /\ done'.generations = 1) =>
            LET stored == store[req[r].handle]
                q      == req[r].query
                m      == Min(5, Len(stored))
                p      == done'.prompt
                chosen == {PromptChunk(p, i) : i \in 1..m}
            IN  /\ Len(p) = 2 * m + 1 + Len(q)
                /\ chosen \subseteq {stored[i] : i \in 1..Len(stored)}
                /\ Cardinality(chosen) = m
                /\ \A i \in 1..(m - 1) :
                     /\ p[2 * i + 1] = "\n---\n"
                     /\ Distance(q, PromptChunk(p, i)) <= Distance(q, PromptChunk(p, i + 1))
                /\ \A j \in 1..Len(stored) :
                     stored[j] \notin chosen =>
                       \A c \in chosen : Distance(q, c) <= Distance(q, stored[j])
                /\ p[2 * m + 1] = "\n\nUser question: "
                /\ SubSeq(p, 2 * m + 2, Len(p)) = q
                /\ done'.resp.status \in {200, 500}
                /\ done'.resp.status = 500 => done'.resp.text = "Error fetching answer from Gemini API." ]_vars

\* a query was answered from a prompt built over a collection of more than 5
\* chunks
C14_Witness ==
    /\ done.kind = "ask" /\ done.resp.status = 200
    /\ done.prompt # <<>>
    /\ ACTIVE_COLLECTION \in DOMAIN store
    /\ Len(store[ACTIVE_COLLECTION]) > 5

\* C15: when the embedding adapter failed to load, every upload is answered
\* at once with 500 and has called no service, the store stays empty, no name
\* is generated, ACTIVE_COLLECTION stays None, and no query gets an answer.
C15_AdapterFailedDisablesAll ==
    GLOBAL_EMBEDDINGS_ADAPTER = None =>
      /\ ACTIVE_COLLECTION = None
      /\ DOMAIN store = {}
      /\ usedNames = {}
      /\ history = <<>>
      /\ \A r \in Reqs : Free(r)
      /\ done.kind = "upload" =>
           /\ done.resp = [status |-> 500, key |-> "error",
                           text |-> "Embeddings model failed to load on startup."]
           /\ done.calls = {}
      /\ done.kind = "ask" =>
           /\ done.resp.status # 200
           /\ done.resp.key # "answer"
           /\ done.generations = 0

\* an upload was answered while the adapter was not loaded
C15_Witness == GLOBAL_EMBEDDINGS_ADAPTER = None /\ done.kind = "upload"

\* C16: every request that has started eventually gets its response, also
\* when the external services never answer.
C16_EventuallyResponds ==
    \A r \in Reqs : (req[r].pc # "idle") ~> (req[r].pc = "idle")

\* the same, for the runs in which the services answer
C16_RespondsWhenAnswered ==
    \A r \in Reqs : (servicesAnswer /\ req[r].pc # "idle") ~> (req[r].pc = "idle")

\* the requests that get their response in this step
Ending == {r \in Reqs : req[r].pc # "idle" /\ req'[r].pc = "idle"}

\* C17: a step answers at most one request; a request leaves its handler
\* only with a response of its own handler; every response has status 200,
\* 400 or 500, a non-200 response carries an "error" field and a 200 response
\* carries none.
C17_OneWellFormedResponse ==
    [][ /\ Cardinality(Ending) <= 1
        /\ \A r \in Ending : done'.kind = req[r].kind
        /\ (done' # done \/ Ending # {}) =>
             /\ done'.kind \in {"upload", "ask"}
             /\ done'.resp.status \in {200, 400, 500}
             /\ done'.resp.status = 200 => done'.resp.key \in {"message", "answer"}
             /\ done'.resp.status # 200 => done'.resp.key = "error" ]_vars

\* an exception raised inside upload_document ended as a 500 response
C17_Witness ==
    /\ done.kind = "upload"
    /\ done.resp = [status |-> 500, key |-> "error", text |-> "PdfReadError"]

\* the error messages the handlers return as literals (lines 59, 109, 139)
FixedMessages ==
    {"Embeddings model failed to load on startup.",
     "Embeddings model failed to load",
     "Error fetching answer from Gemini API."}

\* C18: a 500 response of a request that failed in a call to an external
\* service carries one of the fixed messages, never the text of the exception.
C18_GenericServiceErrors ==
    (done.resp.status = 500 /\ done.calls # {}) => done.resp.text \in FixedMessages

\* the half of C18 that is about ask_question
C18_AskSideGeneric ==
    (done.kind = "ask" /\ done.resp.status = 500) => done.resp.text \in FixedMessages

\* C19: the adapter never changes after startup; a collection is active only
\* if the adapter loaded; no response is the 500 "Embeddings model failed to
\* load" of ask_question; and with the adapter not loaded every query is
\* answered 400 "No document uploaded yet".
C19_AdapterBranchUnreachable ==
    /\ [][GLOBAL_EMBEDDINGS_ADAPTER' = GLOBAL_EMBEDDINGS_ADAPTER]_vars
    /\ [](/\ ACTIVE_COLLECTION # None => GLOBAL_EMBEDDINGS_ADAPTER # None
          /\ done.resp.text # "Embeddings model failed to load"
          /\ (GLOBAL_EMBEDDINGS_ADAPTER = None /\ done.kind = "ask") =>
               done.resp = [status |-> 400, key |-> "error",
                            text |-> "No document uploaded yet"])

\* a query was answered while the adapter was not loaded
C19_Witness ==
    /\ GLOBAL_EMBEDDINGS_ADAPTER = None
    /\ done.kind = "ask" /\ done.resp.status = 400

\* C20: with uploads one at a time, whenever no request is in flight every
\* collection in the store is the one ACTIVE_COLLECTION names.
C20_NoOrphanedCollection ==
    (\A r \in Reqs : Free(r)) => DOMAIN store \subseteq {ACTIVE_COLLECTION}

====
